---- MODULE Spec2Model ----
(***************************************************************************)
(* ConversionService (src/app/services/conversion_service.py): the storage *)
(* root as a state machine.  The state is the filesystem under             *)
(* settings.STORAGE_PATH (conversion directories and sibling zip files),   *)
(* the wall clock, and the position of every call in flight:               *)
(* convert_markdown_to_html, create_zip and cleanup_old_conversions.       *)
(*                                                                         *)
(* File names are sequences of tokens: "n" stands for a piece of text that *)
(* holds no ".md", ".md" and ".html" for these very substrings.            *)
(***************************************************************************)
EXTENDS Integers, Sequences, FiniteSets, TLC

\* ------------------------------------------------------------------ bounds
NumSuffix == 2        \* values the random suffix uuid4().hex[:8] is drawn from
MaxDays == 1          \* days the clock may advance
MaxKeep == 1          \* largest days_to_keep handed to a sweep
MaxNameLen == 2       \* tokens in an input file name
MaxDocs == 2          \* entries of one content mapping
MaxZipExt == 2        \* ".zip" extensions on a name handed to create_zip
MaxFaults == 1        \* I/O failures the environment injects

SecondsPerDay == 24 * 60 * 60

\* ------------------------------------------------------------------ names
Tokens == {"n", ".md"}
Names == UNION {[1..k -> Tokens] : k \in 1..MaxNameLen}

\* str.endswith('.md')
EndsWithMd(name) == Len(name) > 0 /\ name[Len(name)] = ".md"

\* if not filename.endswith('.md'): filename = f"{filename}.md"
NormalizeMd(name) == IF EndsWithMd(name) THEN name ELSE Append(name, ".md")

\* filename.replace('.md', '.html'): every occurrence is replaced
HtmlName(filename) ==
    [i \in 1..Len(filename) |-> IF filename[i] = ".md" THEN ".html" ELSE filename[i]]

RootFile(name) == <<"", name>>
CssFile == <<"css", <<"style", ".css">>>>
\* what a file holds: the stylesheet text, or what a write that raised left behind
CssContent == <<"css", <<>>>>
Partial == <<"partial", <<>>>>

\* the mappings a caller may hand in: dicts keep insertion order, keys are distinct
Injective(s) == \A i, j \in 1..Len(s) : i # j => s[i] # s[j]
BatchesOver(names, k) == {s \in UNION {[1..m -> names] : m \in 1..k} : Injective(s)}
Batches == BatchesOver(Names, MaxDocs)
SmallBatches == BatchesOver({<<"n">>}, 1)
ZipBatches == BatchesOver({<<"n">>, <<".md", "n">>}, 2)

\* ------------------------------------------------------------------ state
VARIABLES now,      \* datetime.now(), in seconds
          dirs,     \* conversion directories: id -> [mtime, css, files]
          zips,     \* regular files of the storage root: <<id, k>> -> [entries, complete]
          cpc, content, user, cdir, idx,          \* convert calls
          zret,     \* the create_zip call that returned last, not yet taken
          cret,     \* the cleanup_old_conversions call that returned last, not yet taken
          left      \* I/O failures the environment may still inject: [convert, store]

fsVars == <<dirs, zips>>
convVars == <<cpc, content, user, cdir, idx>>
retVars == <<zret, cret>>
vars == <<now, fsVars, convVars, retVars, left>>

\* the outcomes of an I/O step of `who`: `bad` are the ways the environment can fail it
Outcomes(who, bad) == IF left[who] > 0 THEN {"ok"} \cup bad ELSE {"ok"}
Charge(who, outcome) ==
    left' = IF outcome = "ok" THEN left ELSE [left EXCEPT ![who] = @ - 1]

Procs == {1, 2}             \* the convert calls that may be in flight together
Users == {"", "u1"}          \* "" is falsy, like None
NoDir == <<>>
NoId == <<"none", 0, 0>>

\* f with key k bound to v (added when absent)
Put(f, k, v) == [x \in DOMAIN f \cup {k} |-> IF x = k THEN v ELSE f[x]]
\* f without key k
Drop(f, k) == [x \in DOMAIN f \ {k} |-> f[x]]

Empty == [x \in {} |-> 0]

\* the instants a directory of the storage root may date from: the days of the
\* clock, and the second after each
Times == {d * SecondsPerDay + sec : d \in 0..MaxDays, sec \in {0, 1}}
\* the conversions a storage root is drawn from
SweepIds == {<<"u1", 0, suffix>> : suffix \in 0..(NumSuffix - 1)}

\* ------------------------------------------------------------------ clock
\* a day passes
Tick ==
    /\ now < MaxDays * SecondsPerDay
    /\ now' = now + SecondsPerDay
    /\ UNCHANGED <<fsVars, convVars, retVars, left>>

\* ------------------------------------------------------------------ convert
\* f"{user_id}_{timestamp}_{suffix}" / f"anonymous_{timestamp}_{suffix}"
DirName(user_id, timestamp, suffix) ==
    <<IF user_id # "" THEN user_id ELSE "anonymous", timestamp, suffix>>

\* os.makedirs(path, exist_ok=True) on a conversion directory
MakeDirs(d, id) ==
    IF id \in DOMAIN d THEN d
    ELSE Put(d, id, [mtime |-> now, css |-> FALSE, files |-> Empty])

\* open(path, "w") and write: a new entry of the directory touches its mtime
WriteFile(d, id, path, data) ==
    Put(d, id, [d[id] EXCEPT
        !.mtime = IF path \in DOMAIN d[id].files \/ path[1] # "" THEN @ ELSE now,
        !.files = Put(@, path, data)])

Call(p) ==
    /\ cpc[p] = "idle"
    /\ \E c \in SmallBatches, u \in {"u1"} :
        /\ content' = [content EXCEPT ![p] = c]
        /\ user' = [user EXCEPT ![p] = u]
    /\ cpc' = [cpc EXCEPT ![p] = "alloc"]
    /\ UNCHANGED <<now, fsVars, cdir, idx, retVars, left>>

\* _create_conversion_dir
Allocate(p) ==
    /\ cpc[p] = "alloc"
    /\ \E suffix \in 0..(NumSuffix - 1) :
        \* now is in whole seconds, as strftime("%Y%m%d%H%M%S") prints it
        LET id == DirName(user[p], now, suffix) IN
        /\ dirs' = MakeDirs(dirs, id)
        /\ cdir' = [cdir EXCEPT ![p] = id]
    /\ cpc' = [cpc EXCEPT ![p] = "css"]
    /\ UNCHANGED <<now, zips, content, user, idx, retVars, left>>

\* _create_base_css: makedirs(css_dir, exist_ok=True), then the stylesheet
CreateBaseCss(p) ==
    /\ cpc[p] = "css"
    /\ LET id == cdir[p]
           made == MakeDirs(dirs, id)
           withCss == Put(made, id, [made[id] EXCEPT
                          !.css = TRUE,
                          !.mtime = IF made[id].css THEN @ ELSE now])
       IN \E outcome \in Outcomes("convert", {"open_fails", "write_fails"}) :
            /\ Charge("convert", outcome)
            /\ dirs' = CASE outcome = "ok" -> WriteFile(withCss, id, CssFile, CssContent)
                         [] outcome = "open_fails" -> withCss
                         [] outcome = "write_fails" -> WriteFile(withCss, id, CssFile, Partial)
            /\ cpc' = [cpc EXCEPT ![p] = IF outcome = "ok" THEN "md" ELSE "failed"]
    /\ idx' = [idx EXCEPT ![p] = 1]
    /\ UNCHANGED <<now, zips, content, user, cdir, retVars>>

\* one open(.., "w") / f.write(..) of the loop: the file named `name` gets `data`
WriteStep(p, name, data, next) ==
    LET id == cdir[p] IN
    IF id \notin DOMAIN dirs
    THEN \* FileNotFoundError: the directory is gone
         /\ cpc' = [cpc EXCEPT ![p] = "failed"]
         /\ UNCHANGED <<dirs, left>>
    ELSE \E outcome \in Outcomes("convert", {"open_fails", "write_fails"}) :
            /\ Charge("convert", outcome)
            /\ dirs' = CASE outcome = "ok" -> WriteFile(dirs, id, RootFile(name), data)
                         [] outcome = "open_fails" -> dirs
                         [] outcome = "write_fails" -> WriteFile(dirs, id, RootFile(name), Partial)
            /\ cpc' = [cpc EXCEPT ![p] = IF outcome = "ok" THEN next ELSE "failed"]

MdContent(key) == <<"md", key>>
\* the template around markdown.markdown(md_content)
HtmlContent(key) == <<"html", key>>

\* save original markdown
WriteMd(p) ==
    /\ cpc[p] = "md"
    /\ idx[p] <= Len(content[p])
    /\ LET key == content[p][idx[p]] IN
        WriteStep(p, NormalizeMd(key), MdContent(key), "html")
    /\ UNCHANGED <<now, zips, content, user, cdir, idx, retVars>>

\* create HTML with template
WriteHtml(p) ==
    /\ cpc[p] = "html"
    /\ LET key == content[p][idx[p]] IN
        WriteStep(p, HtmlName(NormalizeMd(key)), HtmlContent(key), "md")
    /\ idx' = [idx EXCEPT ![p] = IF cpc'[p] = "md" THEN @ + 1 ELSE @]
    /\ UNCHANGED <<now, zips, content, user, cdir, retVars>>

\* return conversion_id, conversion_dir
Return(p) ==
    /\ cpc[p] = "md"
    /\ idx[p] > Len(content[p])
    /\ cpc' = [cpc EXCEPT ![p] = "done"]
    /\ UNCHANGED <<now, fsVars, content, user, cdir, idx, retVars, left>>

Convert(p) == Allocate(p) \/ CreateBaseCss(p) \/ WriteMd(p) \/ WriteHtml(p) \/ Return(p)

\* the files a convert call on the one-entry mapping {key: ..} leaves
Converted(key) ==
    [f \in {CssFile, RootFile(NormalizeMd(key)), RootFile(HtmlName(NormalizeMd(key)))} |->
        IF f = CssFile THEN CssContent
        ELSE IF f = RootFile(NormalizeMd(key)) THEN MdContent(key) ELSE HtmlContent(key)]

\* ------------------------------------------------------------------ create_zip
\* an entry of the storage root: <<id, 0>> is the directory of conversion id,
\* <<id, k>> the regular file named id followed by k ".zip" extensions
DirEntry(id) == <<id, 0>>
IsDir(d, entry) == entry[2] = 0 /\ entry[1] \in DOMAIN d
\* os.path.exists
Exists(entry) == IsDir(dirs, entry) \/ entry \in DOMAIN zips

\* zip_path = f"{conversion_path}.zip"
ZipPath(entry) == <<entry[1], entry[2] + 1>>

\* os.walk(conversion_path): the (root, file) pairs of the tree; nothing when
\* the path is no directory
Walk(entry) ==
    IF IsDir(dirs, entry)
    THEN {<<entry[1], f[1], f[2]>> : f \in DOMAIN dirs[entry[1]].files}
    ELSE {}

\* os.walk goes top-down: `written` can hold a file of the css directory only
\* once every file of the root is written
WalkOrder(walked, written) ==
    (\E f \in written : f[2] # "") => \A f \in walked : f[2] = "" => f \in written

\* os.path.basename(file_path) in the place of relpath
ArcNameFlat(file_path) == <<"", file_path[3]>>

\* os.path.relpath(file_path, conversion_path)
ArcName(file_path) == <<file_path[2], file_path[3]>>

\* the conversion ids a caller may hold, one that was never allocated, and the
\* names of the files lying in the storage root
Requests ==
    {DirEntry(cdir[p]) : p \in {q \in Procs : cdir[q] # NoDir}}
    \cup {DirEntry(NoId)}
    \cup {z \in DOMAIN zips : z[2] < MaxZipExt}

NoZret == [arg |-> DirEntry(NoId), out |-> "none"]
NoCret == [days |-> 0, out |-> "none", removed |-> <<>>]
\* no create_zip or cleanup result is waiting for its caller
Quiet == zret = NoZret /\ cret = NoCret

\* create_zip(conversion_id): ZipFile(zip_path, 'w') truncates, every walked
\* file is written; when a write raises after `written`, the with block closes
\* the archive as far as it got
CreateZip(conversion_id) ==
    /\ Quiet
    /\ conversion_id \in Requests
    /\ IF ~Exists(conversion_id)
       THEN /\ zret' = [arg |-> conversion_id, out |-> "FileNotFoundError"]
            /\ UNCHANGED <<zips, left>>
       ELSE \E outcome \in Outcomes("store", {"open_fails", "write_fails"}) :
            /\ Charge("store", outcome)
            /\ CASE outcome = "ok" ->
                    /\ zips' = Put(zips, ZipPath(conversion_id),
                                   [entries |-> {ArcName(f) : f \in Walk(conversion_id)},
                                    complete |-> TRUE])
                    /\ zret' = [arg |-> conversion_id, out |-> "ok"]
              [] outcome = "open_fails" ->
                    /\ zret' = [arg |-> conversion_id, out |-> "OSError"]
                    /\ UNCHANGED zips
              [] outcome = "write_fails" ->
                    \E written \in SUBSET Walk(conversion_id) :
                        /\ written # Walk(conversion_id)
                        /\ WalkOrder(Walk(conversion_id), written)
                        /\ zips' = Put(zips, ZipPath(conversion_id),
                                       [entries |-> {ArcName(f) : f \in written},
                                        complete |-> FALSE])
                        /\ zret' = [arg |-> conversion_id, out |-> "OSError"]
    /\ UNCHANGED <<now, dirs, convVars, cret>>

\* ------------------------------------------------------------------ cleanup
\* datetime.now().timestamp() - (days_to_keep * 24 * 60 * 60)
CutoffTime(t, days_to_keep) == t - (days_to_keep * SecondsPerDay)

\* mod_time <= cutoff_time in the place of <
IsOldOrAtCutoff(mod_time, cutoff_time) == mod_time <= cutoff_time

\* mod_time < cutoff_time
IsOld(mod_time, cutoff_time) == mod_time < cutoff_time

\* os.listdir(settings.STORAGE_PATH)
ListDir == {DirEntry(id) : id \in DOMAIN dirs} \cup DOMAIN zips

\* the orders a listing may come in, regular files left out: the loop skips them
RECURSIVE Perms(_)
Perms(S) == IF S = {} THEN {<<>>}
            ELSE UNION {{<<x>> \o o : o \in Perms(S \ {x})} : x \in S}
Orders(S) == Perms({item \in S : IsDir(dirs, item)})

NoFault == <<DirEntry(NoId), "none">>

\* the for loop over `items`, from directories d, files z and removed list r;
\* `fault` is the deletion the environment lets fail, if any
RECURSIVE CleanupLoop(_, _, _, _, _, _)
CleanupLoop(items, cutoff_time, d, z, r, fault) ==
    IF items = <<>>
    THEN [dirs |-> d, zips |-> z, removed |-> r, raised |-> FALSE]
    ELSE LET item == Head(items) IN
         IF IsDir(d, item) /\ IsOld(d[item[1]].mtime, cutoff_time)
         THEN IF fault = <<item, "rmtree">>
              THEN [dirs |-> d, zips |-> z, removed |-> r, raised |-> TRUE]
              ELSE LET d2 == Drop(d, item[1])
                       r2 == Append(r, item[1])
                   IN IF ZipPath(item) \in DOMAIN z
                      THEN IF fault = <<item, "remove">>
                           THEN [dirs |-> d2, zips |-> z, removed |-> r2, raised |-> TRUE]
                           ELSE CleanupLoop(Tail(items), cutoff_time, d2,
                                            Drop(z, ZipPath(item)), r2, fault)
                      ELSE CleanupLoop(Tail(items), cutoff_time, d2, z, r2, fault)
         ELSE CleanupLoop(Tail(items), cutoff_time, d, z, r, fault)

\* cleanup_old_conversions(days_to_keep)
Cleanup(days_to_keep) ==
    /\ Quiet
    /\ days_to_keep \in 0..MaxKeep
    /\ \E items \in Orders(ListDir),
          fault \in {NoFault} \cup (IF left["store"] > 0
                                     THEN {i \in ListDir : IsDir(dirs, i)} \X {"rmtree", "remove"}
                                     ELSE {}) :
        LET end == CleanupLoop(items, CutoffTime(now, days_to_keep), dirs, zips, <<>>, fault) IN
        /\ dirs' = end.dirs
        /\ zips' = end.zips
        /\ cret' = [days |-> days_to_keep,
                    out |-> IF end.raised THEN "OSError" ELSE "ok",
                    removed |-> IF end.raised THEN <<>> ELSE end.removed]
        /\ left' = IF end.raised THEN [left EXCEPT !["store"] = @ - 1] ELSE left
    /\ UNCHANGED <<now, convVars, zret>>

\* the caller takes what create_zip or cleanup_old_conversions returned or raised
Taken ==
    /\ ~Quiet
    /\ zret' = NoZret
    /\ cret' = NoCret
    /\ UNCHANGED <<now, fsVars, convVars, left>>

\* ------------------------------------------------------------------ specifications
InitRoot ==
    /\ now = 0
    /\ dirs = Empty
    /\ zips = Empty

InitRets ==
    /\ zret = NoZret
    /\ cret = NoCret

\* convert call 1 is made, on content mapping c for user u; call 2 is not used
OneCall(c, u) ==
    /\ cpc = [p \in Procs |-> IF p = 1 THEN "alloc" ELSE "unused"]
    /\ content = [p \in Procs |-> IF p = 1 THEN c ELSE <<>>]
    /\ user = [p \in Procs |-> IF p = 1 THEN u ELSE ""]
    /\ cdir = [p \in Procs |-> NoDir]
    /\ idx = [p \in Procs |-> 1]

\* one convert call, on any content mapping, run alone to its end
InitConvert ==
    /\ InitRoot /\ InitRets
    /\ \E c \in Batches, u \in Users : OneCall(c, u)
    /\ left = [convert |-> MaxFaults, store |-> 0]

NextConvert == \E p \in Procs : Convert(p)

SpecConvert == InitConvert /\ [][NextConvert]_vars

\* one convert call and create_zip calls at any point of it and after it
InitZip ==
    /\ InitRoot /\ InitRets
    /\ \E c \in ZipBatches : OneCall(c, "u1")
    /\ left = [convert |-> MaxFaults, store |-> MaxFaults]

NextZip ==
    \/ \E p \in Procs : Convert(p)
    \/ \E conversion_id \in Requests : CreateZip(conversion_id)
    \/ Taken

SpecZip == InitZip /\ [][NextZip]_vars

\* cleanup calls on a storage root holding conversions of any age, archived or not
InitSweep ==
    /\ now \in Times
    /\ \E S \in SUBSET SweepIds :
        dirs \in [S -> {[mtime |-> t, css |-> TRUE, files |-> Converted(<<"n">>)] :
                          t \in {x \in Times : x <= now}}]
    /\ \E Z \in SUBSET SweepIds :
        zips = [z \in {ZipPath(DirEntry(id)) : id \in Z} |->
                  [entries |-> DOMAIN Converted(<<"n">>), complete |-> TRUE]]
    /\ InitRets
    /\ cpc = [p \in Procs |-> "unused"]
    /\ content = [p \in Procs |-> <<>>]
    /\ user = [p \in Procs |-> ""]
    /\ cdir = [p \in Procs |-> NoDir]
    /\ idx = [p \in Procs |-> 1]
    /\ left = [convert |-> 0, store |-> MaxFaults]

NextSweep ==
    \/ \E days_to_keep \in 0..MaxKeep : Cleanup(days_to_keep)
    \/ Taken

SpecSweep == InitSweep /\ [][NextSweep]_vars

\* the service after construction: an empty storage root, no call in flight;
\* the convert calls are let through (SpecConvert fails them)
Init ==
    /\ InitRoot /\ InitRets
    /\ cpc = [p \in Procs |-> "idle"]
    /\ content = [p \in Procs |-> <<>>]
    /\ user = [p \in Procs |-> ""]
    /\ cdir = [p \in Procs |-> NoDir]
    /\ idx = [p \in Procs |-> 1]
    /\ left = [convert |-> 0, store |-> MaxFaults]

Next ==
    \/ Tick
    \/ \E p \in Procs : Call(p)
    \/ \E p \in Procs : Convert(p)
    \/ \E conversion_id \in Requests : CreateZip(conversion_id)
    \/ \E days_to_keep \in 0..MaxKeep : Cleanup(days_to_keep)
    \/ Taken

Spec == Init /\ [][Next]_vars

\* ------------------------------------------------------------------ claims
Range(seq) == {seq[i] : i \in DOMAIN seq}
InFlight(p) == cpc[p] \in {"css", "md", "html"}
Files(p) == dirs[cdir[p]].files
MdFiles(p) == {f \in DOMAIN Files(p) : f[1] = "" /\ f[2][Len(f[2])] = ".md"}
HtmlFiles(p) == {f \in DOMAIN Files(p) : f[1] = "" /\ f[2][Len(f[2])] = ".html"}
\* the name with its trailing extension replaced by .html, and nothing else
HtmlSibling(name) == [name EXCEPT ![Len(name)] = ".html"]

\* C1: a convert call that returned leaves exactly one .md file and one .html
\* file per entry of the mapping, and css/style.css, and no other file.
C1_OnePairPerEntry ==
    \A p \in Procs : cpc[p] = "done" =>
        /\ Cardinality(MdFiles(p)) = Len(content[p])
        /\ Cardinality(HtmlFiles(p)) = Len(content[p])
        /\ DOMAIN Files(p) = MdFiles(p) \cup HtmlFiles(p) \cup {CssFile}

\* C8: every entry's markdown file bears the name normalized to end in .md, and
\* its HTML file that name with only the trailing .md turned into .html.
C8_SameBaseName ==
    \A p \in Procs : cpc[p] = "done" =>
        \A i \in 1..Len(content[p]) :
            /\ RootFile(NormalizeMd(content[p][i])) \in DOMAIN Files(p)
            /\ RootFile(HtmlSibling(NormalizeMd(content[p][i]))) \in DOMAIN Files(p)

\* the write of document idx[p] failed (the stylesheet was written before it)
DocFailed(p) ==
    /\ cpc[p] = "failed"
    /\ cdir[p] \in DOMAIN dirs
    /\ CssFile \in DOMAIN Files(p)
    /\ Files(p)[CssFile] = CssContent

\* C7: when the write of document N fails, the files of documents 1..N-1 and the
\* stylesheet are on disk with what was written to them, and no file of a later
\* document is.
C7_EarlierDocumentsKept ==
    \A p \in Procs : (cpc[p] = "failed" /\ cdir[p] # NoDir) =>
        /\ cdir[p] \in DOMAIN dirs
        /\ DocFailed(p) =>
            /\ \A j \in 1..(idx[p] - 1) :
                LET md == RootFile(NormalizeMd(content[p][j]))
                    html == RootFile(HtmlName(NormalizeMd(content[p][j])))
                IN /\ md \in DOMAIN Files(p) /\ Files(p)[md] = MdContent(content[p][j])
                   /\ html \in DOMAIN Files(p) /\ Files(p)[html] = HtmlContent(content[p][j])
            /\ \A f \in DOMAIN Files(p) \ {CssFile} :
                \E j \in 1..idx[p] :
                    f \in {RootFile(NormalizeMd(content[p][j])),
                           RootFile(HtmlName(NormalizeMd(content[p][j])))}

\* C3: two convert calls never hold the same conversion directory.
C3_DisjointDirectories ==
    \A p, q \in Procs :
        (p # q /\ cdir[p] # NoDir /\ cdir[q] # NoDir) => cdir[p] # cdir[q]

\* C10: the directory of a convert call in flight (allocated, not yet returned)
\* is never deleted.
C10_InFlightDirectoryStays ==
    \A p \in Procs : InFlight(p) => cdir[p] \in DOMAIN dirs

\* C5: create_zip on a name with no conversion directory raises the not-found
\* error and leaves the files of the storage root as they were.
C5_NotFoundWithoutDirectory ==
    [][(zret.out = "none" /\ zret'.out # "none" /\ ~IsDir(dirs, zret'.arg))
        => (zret'.out = "FileNotFoundError" /\ zips' = zips)]_vars

\* C9: after a create_zip that failed, the archive path holds a complete archive
\* or no file.
C9_NoPartialArchive ==
    zret.out = "OSError" =>
        \/ ZipPath(zret.arg) \notin DOMAIN zips
        \/ zips[ZipPath(zret.arg)].complete

\* C6: a deletion that fails does not stop the sweep: of the conversions that
\* were stale, at most the failing one is left (its directory or its archive),
\* and every other one is in the returned list.
C6_SweepGoesOn ==
    [][(cret.out = "none" /\ cret'.out # "none") =>
        LET stale == {id \in DOMAIN dirs :
                        dirs[id].mtime < now - cret'.days * SecondsPerDay}
            leftover == {id \in stale : \/ id \in DOMAIN dirs'
                                        \/ ZipPath(DirEntry(id)) \in DOMAIN zips'}
        IN /\ Cardinality(leftover) <= 1
           /\ \A id \in stale \ leftover : id \in Range(cret'.removed)]_vars

\* C2: a sweep that returns normally removes a directory exactly when its
\* last-modified time is strictly before now - retention; with each removed
\* directory its sibling archive goes, and its id is in the returned list; what
\* it keeps it leaves as it was.
C2_RemovesExactlyTheOld ==
    [][(cret.out = "none" /\ cret'.out = "ok") =>
        \A id \in DOMAIN dirs :
            LET old == dirs[id].mtime < now - cret'.days * SecondsPerDay IN
            /\ old <=> id \notin DOMAIN dirs'
            /\ old => /\ ZipPath(DirEntry(id)) \notin DOMAIN zips'
                      /\ id \in Range(cret'.removed)
            /\ ~old => /\ dirs'[id] = dirs[id]
                       /\ id \notin Range(cret'.removed)
                       /\ \A z \in DOMAIN zips : z[1] = id => z \in DOMAIN zips']_vars

\* a sweep returned after removing a conversion, archive and all, and keeping
\* an archived one that was modified exactly at the cutoff
C2_Witness ==
    /\ cret.out = "ok"
    /\ cret.removed # <<>>
    /\ \E id \in SweepIds : /\ id \in Range(cret.removed)
                           /\ id \notin DOMAIN dirs
                           /\ ZipPath(DirEntry(id)) \notin DOMAIN zips
    /\ \E id \in DOMAIN dirs : /\ dirs[id].mtime = now - cret.days * SecondsPerDay
                               /\ ZipPath(DirEntry(id)) \in DOMAIN zips

\* C4: create_zip on a conversion that returns normally leaves, beside the
\* directory, a complete archive whose entries are exactly the files of the
\* directory tree, each under its path relative to the conversion root; the
\* directory itself is untouched.
C4_ArchiveHoldsTheTree ==
    [][(zret.out = "none" /\ zret'.out = "ok" /\ IsDir(dirs, zret'.arg)) =>
        LET id == zret'.arg[1] IN
        /\ <<id, 1>> \in DOMAIN zips'
        /\ zips'[<<id, 1>>].entries = DOMAIN dirs[id].files
        /\ zips'[<<id, 1>>].complete
        /\ dirs' = dirs
        /\ \A z \in DOMAIN zips' : z # <<id, 1>> => z \in DOMAIN zips /\ zips'[z] = zips[z]]_vars

\* an archive of a finished two-document conversion: the stylesheet under css/
\* and four files of the root; it was archived before (a zip of that archive
\* lies beside it)
C4_Witness ==
    /\ zret.out = "ok"
    /\ cpc[1] = "done"
    /\ zret.arg = DirEntry(cdir[1])
    /\ ZipPath(ZipPath(zret.arg)) \in DOMAIN zips
    /\ zips[ZipPath(zret.arg)].entries = DOMAIN Files(1)
    /\ CssFile \in DOMAIN Files(1)
    /\ Cardinality(DOMAIN Files(1)) = 5

====
